---- MODULE Spec2Model ----
(***************************************************************************)
(* A model of src/src/plot.C: the legend-avoiding y-range computation of   *)
(* Plotter::plot and its helper smartMax, the retrieval of the histograms  *)
(* and the naming of the output image.                                     *)
(*                                                                         *)
(* Numbers.  Bin contents and errors are integers (one unit = 1.0).  Pad   *)
(* margins and legend coordinates are integers in hundredths of the pad    *)
(* (0.12 is 12).  A value computed by the range block is a rational        *)
(* [n, d] (n/d, d > 0).  log10 is a fixed-point function in 1/4096 decade. *)
(* All bin values of the model are integers, so `bin > 1e-10' is `bin > 0'.*)
(***************************************************************************)
EXTENDS Integers, Sequences, FiniteSets, TLC

VARIABLES
    \* ---- Plotter::plot
    pc,         \* the position in plot()
    isLogY,     \* plot()'s isLogY argument
    nBins,      \* GetNbinsX() of the histograms named histName (after Rebin)
    bg,         \* bgEntries_[i].h, i in 1..Len(bg)
    sig,        \* sigEntries_[i].h
    data,       \* data_.h
    hbgSum,     \* the sum of the background histograms
    iBG,        \* the index of the first loop (counts down)
    iSig,       \* the position of the signal loop
    acc,        \* plot()'s min, max, lmax, which smartMax updates by reference
                \* as gmin, gmax, gpThreshMax
    smax,       \* `max' as the y-range block leaves it (a rational)
    yrange,     \* the arguments of GetYaxis()->SetRangeUser: [lo, hi], rationals
    leg,        \* the TLegend: [x1, y1, x2, y2], hundredths
    pad,        \* gPad's margins: [left, right, top, bottom], hundredths
    diag,       \* the kinds of diagnostic message printed so far
    ub,         \* a null histogram pointer has been dereferenced
    \* ---- smartMax: the frame of its latest call
    smH,        \* the bins of the histogram
    smErr,      \* the `error' flag
    smLoc,      \* the locals min, max, pThreshMax at the end of the loop
    smThr,      \* the local `threshold'
    smPad,      \* the pad margins the call read
    smEntry,    \* "none" before any call; else whether the accumulators held
                \* the unset sentinels ("unset") or not ("set") when it began
    \* ---- the naming of the output image
    npc,        \* the position in the naming block
    histName,   \* plot()'s histName argument
    name,       \* the local std::string name
    pos,        \* the local size_t pos (NPos for std::string::npos)
    outFile,    \* the argument of c->Print
    oob         \* name[pos] was written with pos outside the string

plotVars == <<pc, isLogY, nBins, bg, sig, data, hbgSum, iBG, iSig, smax, yrange, diag, ub>>
smVars == <<smH, smErr, smLoc, smThr, smPad, smEntry>>
nameVars == <<npc, histName, name, pos, outFile, oob>>
vars == <<plotVars, acc, leg, pad, smVars, nameVars>>

-----------------------------------------------------------------------------
(* Bounds of the model *)

\* the bins of a histogram in Spec
MaxBins == 4

\* the bins of a histogram in SpecSM
MaxSMBins == 3

\* the largest value of max in SpecRange
MaxAccum == 100

\* the characters of a histogram name in SpecName
MaxNameLen == 4

-----------------------------------------------------------------------------
(* Program constants *)

\* 9e99, the "unset" magnitude of smartMax's locals (min = 9e99, max = -9e99)
Unset == 999999999

\* a TH1 bin: <<content, error>>
Content(b) == b[1]
Error(b) == b[2]

-----------------------------------------------------------------------------
(* smartMax *)

MinOf(a, b) == IF a < b THEN a ELSE b
MaxOf(a, b) == IF a > b THEN a ELSE b

\* static_cast<int> of the quotient n/d (d > 0): truncation toward zero
Trunc(n, d) == IF n >= 0 THEN n \div d ELSE -((-n) \div d)

\* bin > 1e-10, on integer bin values
AboveEps(bin) == bin > 0

\* int threshold = static_cast<int>(N*(X1 - left)/((1 - right) - left))
Threshold(N, x1, left, right) == Trunc(N * (x1 - left), (100 - right) - left)

\* the value of bin i that the loop compares
BinValue(h, i, error) ==
    IF error THEN Content(h[i]) + Error(h[i]) ELSE Content(h[i])

SmartMaxLocals == [min |-> Unset, max |-> -Unset, pThreshMax |-> -Unset]

\* the body of the for loop, for bin i
ScanBin(h, i, threshold, error, loc) ==
    LET bin == BinValue(h, i, error)
        isMax == bin > loc.max
    IN  [ max |-> IF isMax THEN bin ELSE loc.max,
          min |-> IF ~isMax /\ AboveEps(bin) /\ bin < loc.min THEN bin ELSE loc.min,
          pThreshMax |-> IF i >= threshold /\ bin > loc.pThreshMax
                         THEN bin ELSE loc.pThreshMax ]

RECURSIVE ScanBins(_, _, _, _, _)
ScanBins(h, i, threshold, error, loc) ==
    IF i > Len(h) THEN loc
    ELSE ScanBins(h, i + 1, threshold, error, ScanBin(h, i, threshold, error, loc))

\* the locals at the end of the loop
SmartMaxScan(h, l, p, error) ==
    ScanBins(h, 1, Threshold(Len(h), l.x1, p.left, p.right), error, SmartMaxLocals)

\* Merge with the locals assigned to the accumulators, not folded into them
MergeOverwrite(g, loc) ==
    [gmin |-> loc.min, gmax |-> loc.max, gpThreshMax |-> loc.pThreshMax]

\* Merge without its line gmax = std::max(gmax, max)
MergeZoneOnly(g, loc) ==
    [ gmin |-> MinOf(g.gmin, loc.min),
      gmax |-> g.gmax,
      gpThreshMax |-> MaxOf(g.gpThreshMax, loc.pThreshMax) ]

\* the three std::max / std::min lines that fold the locals into the accumulators
Merge(g, loc) ==
    [ gmin |-> MinOf(g.gmin, loc.min),
      gmax |-> MaxOf(g.gmax, loc.max),
      gpThreshMax |-> MaxOf(g.gpThreshMax, loc.pThreshMax) ]

SmartMax(h, l, p, g, error) == Merge(g, SmartMaxScan(h, l, p, error))

-----------------------------------------------------------------------------
(* Rationals and the fixed-point log10 / pow of the y-range block *)

RECURSIVE Gcd(_, _)
Gcd(a, b) == IF b = 0 THEN a ELSE Gcd(b, a % b)

\* n/d in lowest terms (n >= 0, d > 0)
Rat(n, d) == LET g == Gcd(n, d) IN [n |-> n \div g, d |-> d \div g]

RatLess(a, b) == a.n * b.d < b.n * a.d
RatMin(a, b) == IF RatLess(b, a) THEN b ELSE a
RatMax(a, b) == IF RatLess(a, b) THEN b ELSE a
RatMul(a, b) ==
    LET g1 == Gcd(a.n, b.d)
        g2 == Gcd(b.n, a.d)
    IN  Rat((a.n \div g1) * (b.n \div g2), (a.d \div g2) * (b.d \div g1))
RatDiv(a, b) == RatMul(a, [n |-> b.d, d |-> b.n])

\* one decade, in the fixed-point unit of the logarithms
LogOne == 2 ^ 12

RECURSIVE Ilog10(_)
Ilog10(n) == IF n < 10 THEN 0 ELSE 1 + Ilog10(n \div 10)

RECURSIVE Pow10(_)
Pow10(k) == IF k = 0 THEN 1 ELSE 10 * Pow10(k - 1)

\* log10 of the mantissa m / LogOne in [1, 10), k binary digits, by squaring
RECURSIVE LogBits(_, _)
LogBits(m, k) ==
    IF k = 0 THEN 0
    ELSE LET sq == (m * m) \div LogOne
         IN  IF sq >= 10 * LogOne
             THEN 2 ^ (k - 1) + LogBits(sq \div 10, k - 1)
             ELSE LogBits(sq, k - 1)

\* log10(n) for an integer n >= 1
RECURSIVE Log10Int(_)
Log10Int(n) ==
    IF n >= 500000 THEN LogOne + Log10Int(n \div 10)
    ELSE LET e == Ilog10(n)
         IN  e * LogOne + LogBits((n * LogOne) \div Pow10(e), 12)

\* log10(r) for a rational r > 0
Log10Rat(r) == Log10Int(r.n) - Log10Int(r.d)

\* the largest mantissa in [lo, hi) whose log10 is at most r
RECURSIVE ExpSearch(_, _, _)
ExpSearch(lo, hi, r) ==
    IF hi - lo <= 1 THEN lo
    ELSE LET mid == (lo + hi) \div 2
         IN  IF LogBits(mid, 12) <= r THEN ExpSearch(mid, hi, r)
             ELSE ExpSearch(lo, mid, r)

\* pow(10, t / LogOne), a rational
Exp10(t) ==
    LET q == t \div LogOne
        m == ExpSearch(LogOne, 10 * LogOne, t - q * LogOne)
    IN  IF q >= 0 THEN Rat(m * Pow10(q), LogOne) ELSE Rat(m, LogOne * Pow10(-q))

-----------------------------------------------------------------------------
(* Plotter::plot: the pad, the legend, the y-range block *)

Legend(x1, y1, x2, y2) == [x1 |-> x1, y1 |-> y1, x2 |-> x2, y2 |-> y2]
Margins(l, r, t, b) == [left |-> l, right |-> r, top |-> t, bottom |-> b]

\* new TLegend(0.50, 0.56, 0.89, 0.88)
PlotLegend == Legend(50, 56, 89, 88)

\* new TPad("pad1", ...): the margins of a pad no one has set (0.1 each)
DefaultMargins == Margins(10, 10, 10, 10)

\* dummy.setupPad(0.12, 0.06, 0.08, 0.0)
UpperPadMargins == Margins(12, 6, 8, 0)

\* double min = 0.0; double max = 0.0; double lmax = 0.0;
ZeroAcc == [gmin |-> 0, gmax |-> 0, gpThreshMax |-> 0]

\* LegendEdge reading the legend's top edge, leg->GetY2()
LegendEdgeTop(l) == l.y2

\* leg->GetY1(): the legend edge the y-range block measures to
LegendEdge(l) == l.y1

\* (leg->GetY1() - bottom) / ((1 - top) - bottom), as numerator and denominator
LegNum(l, p) == LegendEdge(l) - p.bottom
LegDen(p) == (100 - p.top) - p.bottom

\* double locMin = std::min(0.2, std::max(0.2, 0.05 * min));
LocMinLog(min) == RatMin(Rat(1, 5), RatMax(Rat(1, 5), Rat(min, 20)))

\* legSpan, in the unit of the logarithms (max > 0)
LegSpan(min, max, l, p) ==
    ((Log10Int(3 * max) - Log10Rat(LocMinLog(min))) * LegNum(l, p)) \div LegDen(p)

\* double legMin = legSpan + log10(locMin);
LegMinLog(min, max, l, p) == LegSpan(min, max, l, p) + Log10Rat(LocMinLog(min))

\* CollidesLog comparing lmax itself, not its logarithm, with legMin
CollidesLogRaw(g, l, p) ==
    /\ g.gmax > 0
    /\ g.gpThreshMax > 0
    /\ g.gpThreshMax * LogOne > LegMinLog(g.gmin, g.gmax, l, p)

\* if(log10(lmax) > legMin).  log10(0) is -inf: with max = 0 legMin is -inf and
\* nothing is greater; with lmax = 0 the left side is -inf and the test fails.
CollidesLog(g, l, p) ==
    /\ g.gmax > 0
    /\ g.gpThreshMax > 0
    /\ Log10Int(g.gpThreshMax) > LegMinLog(g.gmin, g.gmax, l, p)

\* scale = ...; max = pow(max/locMin, scale)*locMin;
ScaledMaxLog(g, l, p) ==
    LET llo == Log10Rat(LocMinLog(g.gmin))
        num == Log10Int(g.gpThreshMax) - llo
        den == LegMinLog(g.gmin, g.gmax, l, p) - llo
        t == ((Log10Int(g.gmax) - llo) * num) \div den
    IN  RatMul(Exp10(t), LocMinLog(g.gmin))

\* the log branch: `max' after the if, and SetRangeUser(locMin, 10*max)
RangeLog(g, l, p) ==
    LET m == IF CollidesLog(g, l, p) THEN ScaledMaxLog(g, l, p) ELSE Rat(g.gmax, 1)
    IN  [smax |-> m, lo |-> LocMinLog(g.gmin), hi |-> RatMul(Rat(10, 1), m)]

\* LegMinLin with the headroom factor of SetRangeUser, 1.3, in place of 1.2
LegMinLin13(g, l, p) == Rat(13 * g.gmax * LegNum(l, p), 10 * LegDen(p))

\* double legMin = (1.2*max - locMin) * (...) / (...), with locMin = 0.0
LegMinLin(g, l, p) == Rat(12 * g.gmax * LegNum(l, p), 10 * LegDen(p))

\* if(lmax > legMin)
CollidesLin(g, l, p) == RatLess(LegMinLin(g, l, p), Rat(g.gpThreshMax, 1))

\* the linear branch: max *= (lmax - locMin)/(legMin - locMin); SetRangeUser(0.0, max*1.3)
RangeLin(g, l, p) ==
    LET m == IF CollidesLin(g, l, p)
             THEN RatDiv(Rat(g.gmax * g.gpThreshMax, 1), LegMinLin(g, l, p))
             ELSE Rat(g.gmax, 1)
    IN  [smax |-> m, lo |-> Rat(0, 1), hi |-> RatMul(m, Rat(13, 10))]

YRange(logy, g, l, p) == IF logy THEN RangeLog(g, l, p) ELSE RangeLin(g, l, p)

-----------------------------------------------------------------------------
(* Plotter::plot: the histograms *)

\* a TH1 pointer: null, or the bins 1..GetNbinsX() of the histogram
NullH == [present |-> FALSE, bins |-> <<>>]
Hist(b) == [present |-> TRUE, bins |-> b]

\* the filled bin of each kind of entry: <<content, error>>
DataBin == <<4, 2>>
BgBin == <<3, 0>>
SigBin == <<5, 0>>

\* the sizes of bgEntries_ and sigEntries_ a Plotter is built with
BgSizes == {1, 2}
SigSizes == {0, 1}

\* the histograms of n bins a file may hold: empty, flat, or one filled bin
HistsOf(b, n) ==
    { Hist([i \in 1..n |-> <<0, 0>>]), Hist([i \in 1..n |-> b]) }
    \cup { Hist([i \in 1..n |-> IF i = k THEN b ELSE <<0, 0>>]) : k \in 1..n }

\* histInfo::retrieveHistogram: what it prints and what it leaves in h
Retrieved(b, n) ==
    { [msg |-> {"file could not be opened"}, h |-> NullH],
      [msg |-> {"histogram could not be found"}, h |-> NullH] }
    \cup { [msg |-> {}, h |-> x] : x \in HistsOf(b, n) }

\* TH1::Add on the bin contents
AddBins(a, b) == [i \in 1..Len(a) |-> <<Content(a[i]) + Content(b[i]), 0>>]

\* what the variables of another part of the program hold while it is not run
IdleRange == [lo |-> Rat(0, 1), hi |-> Rat(0, 1)]
smIdle ==
    /\ smH = <<>>
    /\ smErr = FALSE
    /\ smLoc = SmartMaxLocals
    /\ smThr = 0
    /\ smPad = DefaultMargins
    /\ smEntry = "none"
nameIdle ==
    /\ npc = "idle"
    /\ histName = <<>>
    /\ name = <<>>
    /\ pos = 0
    /\ outFile = <<>>
    /\ oob = FALSE
plotIdle ==
    /\ pc = "idle"
    /\ isLogY = FALSE
    /\ nBins = 0
    /\ bg = <<>>
    /\ sig = <<>>
    /\ data = NullH
    /\ hbgSum = NullH
    /\ iBG = 0
    /\ iSig = 0
    /\ smax = Rat(0, 1)
    /\ yrange = IdleRange
    /\ diag = {}
    /\ ub = FALSE

UnsetAcc == [gmin |-> Unset, gmax |-> -Unset, gpThreshMax |-> -Unset]

\* the frame of a smartMax call on the bins h
CallSmartMax(h, error) ==
    /\ smH' = h
    /\ smErr' = error
    /\ smPad' = pad
    /\ smEntry' = IF acc = UnsetAcc THEN "unset" ELSE "set"
    /\ smThr' = Threshold(Len(h), leg.x1, pad.left, pad.right)
    /\ smLoc' = SmartMaxScan(h, leg, pad, error)
    /\ acc' = SmartMax(h, leg, pad, acc, error)

\* h-> on a null shared_ptr.  The behaviour is undefined: the process dies
\* ("crashed"), or it goes on in a state the language does not define
\* ("undefined"), which the model follows no further.
NullDeref ==
    /\ pc' \in {"crashed", "undefined"}
    /\ ub' = TRUE
    /\ UNCHANGED <<acc, smVars>>

-----------------------------------------------------------------------------
(* Spec: one call of Plotter::plot, from its entry to SetRangeUser *)

Init ==
    /\ pc = "bg"
    /\ isLogY \in BOOLEAN
    /\ nBins \in 1..MaxBins
    /\ \E nb \in BgSizes : bg = [i \in 1..nb |-> NullH] /\ iBG = nb
    /\ \E ns \in SigSizes : sig = [i \in 1..ns |-> NullH]
    /\ iSig = 1
    /\ data = NullH
    /\ hbgSum = NullH
    /\ acc = ZeroAcc
    /\ smax = Rat(0, 1)
    /\ yrange = IdleRange
    /\ leg = PlotLegend
    /\ pad = DefaultMargins
    /\ diag = {}
    /\ ub = FALSE
    /\ smIdle
    /\ nameIdle

\* one iteration of the loop over bgEntries_, from the last entry to the first
BgIter ==
    /\ pc = "bg"
    /\ \E r \in Retrieved(BgBin, nBins) :
        /\ diag' = diag \cup r.msg
        /\ bg' = [bg EXCEPT ![iBG] = r.h]
        /\ IF hbgSum.present
           THEN \* hbgSum->Add(h): TH1::Add ignores a null histogram
                /\ hbgSum' = IF r.h.present
                             THEN Hist(AddBins(hbgSum.bins, r.h.bins)) ELSE hbgSum
                /\ pc' = IF iBG = 1 THEN "data" ELSE "bg"
                /\ UNCHANGED ub
           ELSE \* hbgSum = h->Clone()
                IF r.h.present
                THEN /\ hbgSum' = r.h
                     /\ pc' = IF iBG = 1 THEN "data" ELSE "bg"
                     /\ UNCHANGED ub
                ELSE /\ pc' \in {"crashed", "undefined"}
                     /\ ub' = TRUE
                     /\ UNCHANGED hbgSum
    /\ iBG' = iBG - 1
    /\ UNCHANGED <<isLogY, nBins, sig, data, iSig, acc, smax, yrange, leg, pad>>
    /\ UNCHANGED <<smVars, nameVars>>

\* data_.retrieveHistogram(); data_.h->Integral(...); smartMax(data_.h.get(), ..., true)
DataMax ==
    /\ pc = "data"
    /\ \E r \in Retrieved(DataBin, nBins) :
        /\ diag' = diag \cup r.msg
        /\ data' = r.h
        /\ IF r.h.present
           THEN /\ CallSmartMax(r.h.bins, TRUE)
                /\ pc' = "bgmax"
                /\ UNCHANGED ub
           ELSE NullDeref
    /\ UNCHANGED <<isLogY, nBins, bg, sig, hbgSum, iBG, iSig, smax, yrange, leg, pad>>
    /\ UNCHANGED nameVars

\* the loop that fills the legend with the backgrounds, each entry dereferenced
\* by entry.setFillColor(); then smartMax(hbgSum, ..., false)
BgMax ==
    /\ pc = "bgmax"
    /\ IF \A i \in 1..Len(bg) : bg[i].present
       THEN /\ CallSmartMax(hbgSum.bins, FALSE)
            /\ pc' = IF Len(sig) = 0 THEN "axes" ELSE "sig"
            /\ UNCHANGED ub
       ELSE NullDeref
    /\ UNCHANGED <<isLogY, nBins, bg, sig, data, hbgSum, iBG, iSig, smax, yrange, leg, pad, diag>>
    /\ UNCHANGED nameVars

\* one iteration of the loop over sigEntries_
SigIter ==
    /\ pc = "sig"
    /\ \E r \in Retrieved(SigBin, nBins) :
        /\ diag' = diag \cup r.msg
        /\ sig' = [sig EXCEPT ![iSig] = r.h]
        /\ IF r.h.present
           THEN /\ CallSmartMax(r.h.bins, FALSE)
                /\ pc' = IF iSig = Len(sig) THEN "axes" ELSE "sig"
                /\ UNCHANGED ub
           ELSE NullDeref
    /\ iSig' = iSig + 1
    /\ UNCHANGED <<isLogY, nBins, bg, data, hbgSum, iBG, smax, yrange, leg, pad>>
    /\ UNCHANGED nameVars

\* histInfo dummy(...); dummy.setupPad(0.12, 0.06, 0.08, 0.0); dummy.setupAxes(...)
SetupPad ==
    /\ pc = "axes"
    /\ pad' = UpperPadMargins
    /\ pc' = "range"
    /\ UNCHANGED <<isLogY, nBins, bg, sig, data, hbgSum, iBG, iSig, acc, smax, yrange, leg, diag, ub>>
    /\ UNCHANGED <<smVars, nameVars>>

\* the block "Set the y-range of the histogram"
SetRange ==
    /\ pc = "range"
    /\ LET r == YRange(isLogY, acc, leg, pad)
       IN  /\ smax' = r.smax
           /\ yrange' = [lo |-> r.lo, hi |-> r.hi]
    /\ pc' = "done"
    /\ UNCHANGED <<isLogY, nBins, bg, sig, data, hbgSum, iBG, iSig, acc, leg, pad, diag, ub>>
    /\ UNCHANGED <<smVars, nameVars>>

Next == BgIter \/ DataMax \/ BgMax \/ SigIter \/ SetupPad \/ SetRange

Spec == Init /\ [][Next]_vars

-----------------------------------------------------------------------------
(* SpecRange: the y-range block on every value the accumulators can hold *)

\* the values of min the block is run on: 0.0, which plot() always has here,
\* and 1.0
RangeMins == {0, 1}

InitRange ==
    /\ pc = "axes"
    /\ isLogY \in BOOLEAN
    /\ \E mn \in RangeMins, mx \in 0..MaxAccum :
        \E lm \in 0..mx : acc = [gmin |-> mn, gmax |-> mx, gpThreshMax |-> lm]
    /\ leg = PlotLegend
    /\ pad = DefaultMargins
    /\ nBins = 0
    /\ bg = <<>>
    /\ sig = <<>>
    /\ data = NullH
    /\ hbgSum = NullH
    /\ iBG = 0
    /\ iSig = 0
    /\ smax = Rat(0, 1)
    /\ yrange = IdleRange
    /\ diag = {}
    /\ ub = FALSE
    /\ smIdle
    /\ nameIdle

NextRange == SetupPad \/ SetRange

SpecRange == InitRange /\ [][NextRange]_vars

-----------------------------------------------------------------------------
(* SpecSM: smartMax called again and again on the same accumulators *)

\* the bins of the histograms smartMax is called on: <<content, error>>
SMBins == { <<0, 0>>, <<2, 1>>, <<7, 0>> }

RECURSIVE SeqsUpTo(_, _)
SeqsUpTo(S, n) ==
    IF n = 0 THEN { <<>> }
    ELSE LET shorter == SeqsUpTo(S, n - 1)
         IN  shorter \cup { Append(s, x) : s \in { t \in shorter : Len(t) = n - 1 }, x \in S }

SMSeries == SeqsUpTo(SMBins, MaxSMBins)

\* the legend's left edge: left of the plot area, on its left border, inside
\* it, on its right border, right of it
SMLegendXs == {5, 12, 50, 94, 97}

InitSM ==
    /\ acc \in {UnsetAcc, ZeroAcc}
    /\ leg \in { Legend(x, 56, 89, 88) : x \in SMLegendXs }
    /\ pad = UpperPadMargins
    /\ smIdle
    /\ plotIdle
    /\ nameIdle

SmartMaxCall ==
    /\ \E h \in SMSeries, error \in BOOLEAN : CallSmartMax(h, error)
    /\ UNCHANGED <<leg, pad, plotVars, nameVars>>

NextSM == SmartMaxCall

SpecSM == InitSM /\ [][NextSM]_vars

-----------------------------------------------------------------------------
(* SpecName: the block "save new plot to file" of Plotter::plot *)

\* std::string::npos, (size_t)-1: npos + 1 is 0
NPos == -1

Chars == {"/", "h", "_"}

\* name.find("/", from): positions count from 0
RECURSIVE Find(_, _)
Find(s, from) ==
    IF from >= Len(s) THEN NPos
    ELSE IF s[from + 1] = "/" THEN from
    ELSE Find(s, from + 1)

InitName ==
    /\ npc = "copy"
    /\ histName \in SeqsUpTo(Chars, MaxNameLen)
    /\ name = <<>>
    /\ pos = 0
    /\ outFile = <<>>
    /\ oob = FALSE
    /\ acc = ZeroAcc
    /\ leg = PlotLegend
    /\ pad = UpperPadMargins
    /\ smIdle
    /\ plotIdle

\* std::string name = histName; size_t pos = name.find("/");
NameFind ==
    /\ npc = "copy"
    /\ name' = histName
    /\ pos' = Find(histName, 0)
    /\ npc' = "write"
    /\ UNCHANGED <<histName, outFile, oob>>
    /\ UNCHANGED <<plotVars, acc, leg, pad, smVars>>

\* name[pos] = '_';  With pos outside the string the behaviour is undefined:
\* the byte is written outside it and the run goes on, or the process dies.
NameWrite ==
    /\ npc = "write"
    /\ IF 0 <= pos /\ pos < Len(name)
       THEN /\ name' = [name EXCEPT ![pos + 1] = "_"]
            /\ npc' = "next"
            /\ UNCHANGED oob
       ELSE /\ oob' = TRUE
            /\ npc' \in {"next", "crashed"}
            /\ UNCHANGED name
    /\ UNCHANGED <<histName, pos, outFile>>
    /\ UNCHANGED <<plotVars, acc, leg, pad, smVars>>

\* while( (pos = name.find("/", pos + 1)) != std::string::npos );
NameNext ==
    /\ npc = "next"
    /\ pos' = Find(name, pos + 1)
    /\ npc' = IF pos' # NPos THEN "write" ELSE "print"
    /\ UNCHANGED <<histName, name, outFile, oob>>
    /\ UNCHANGED <<plotVars, acc, leg, pad, smVars>>

\* c->Print((name + ".png").c_str());
NamePrint ==
    /\ npc = "print"
    /\ outFile' = name \o <<".png">>
    /\ npc' = "done"
    /\ UNCHANGED <<histName, name, pos, oob>>
    /\ UNCHANGED <<plotVars, acc, leg, pad, smVars>>

NextName == NameFind \/ NameWrite \/ NameNext \/ NamePrint

SpecName == InitName /\ [][NextName]_vars

-----------------------------------------------------------------------------
(* The claims *)

\* the values of the bins of h that a scan by hand compares
HandValues(h, error) == { BinValue(h, i, error) : i \in 1..Len(h) }
HandMax(h, error) ==
    IF h = <<>> THEN -Unset
    ELSE CHOOSE v \in HandValues(h, error) : \A w \in HandValues(h, error) : w <= v
HandMin(h, error) ==
    LET pos1 == { v \in HandValues(h, error) : AboveEps(v) }
    IN  IF pos1 = {} THEN Unset ELSE CHOOSE v \in pos1 : \A w \in pos1 : v <= w

\* the bins of the series plot() draws: the data with its uncertainty, the
\* summed background, each signal
DrawnSeries ==
    { [i \in 1..Len(data.bins) |-> BinValue(data.bins, i, TRUE)],
      [i \in 1..Len(hbgSum.bins) |-> BinValue(hbgSum.bins, i, FALSE)] }
    \cup { [i \in 1..Len(sig[k].bins) |-> BinValue(sig[k].bins, i, FALSE)] : k \in 1..Len(sig) }

\* bin i of a series of N bins lies in the legend zone smartMax scanned
InZone(i, N) == i >= Threshold(N, leg.x1, smPad.left, smPad.right)

\* the value v is not above the y-axis value at the legend's bottom edge, for
\* the axis range yrange drawn between the pad's bottom and top margins
NotAboveLegend(v) ==
    LET num == leg.y1 - pad.bottom
        den == (100 - pad.top) - pad.bottom
    IN  IF isLogY
        THEN \/ v <= 0
             \/ /\ yrange.hi.n > 0
                /\ Log10Int(v) <= Log10Rat(yrange.lo)
                     + ((Log10Rat(yrange.hi) - Log10Rat(yrange.lo)) * num) \div den
        ELSE v * den * yrange.hi.d <= num * yrange.hi.n

\* C1: when plot() has set the y-axis range, in the log and in the linear
\* branch, no bin in the legend zone of the data (value plus uncertainty), of
\* the summed background or of a signal is above the axis value at the
\* legend's bottom edge.
C1_LegendClearsZone ==
    pc = "done" =>
        /\ NotAboveLegend(acc.gpThreshMax)
        /\ \A s \in DrawnSeries : \A i \in 1..Len(s) :
               InZone(i, Len(s)) => NotAboveLegend(s[i])

\* a plot whose range was rescaled because a zone bin, lower than the highest
\* bin, would have reached the legend
C1_Witness ==
    /\ pc = "done"
    /\ RatLess(Rat(acc.gmax, 1), smax)
    /\ 0 < acc.gpThreshMax
    /\ acc.gpThreshMax < acc.gmax

\* C2: one smartMax call on accumulators holding the unset sentinels leaves
\* max = the largest bin value and min = the smallest bin value above 1e-10
\* (the unset sentinel when there is none), whatever the order of the bins.
C2_SingleSeriesScan ==
    smEntry = "unset" =>
        /\ acc.gmax = HandMax(smH, smErr)
        /\ acc.gmin = HandMin(smH, smErr)

\* C3: with the legend's left edge at or before the left margin every bin of
\* the series is in the zone; with it at or beyond 1 - rightMargin no bin is,
\* and the call's zone maximum stays the sentinel.
C3_ZoneAtTheBorders ==
    smEntry # "none" =>
        /\ leg.x1 <= pad.left =>
               /\ smThr <= 0
               /\ \A i \in 1..Len(smH) : i >= smThr
               /\ smLoc.pThreshMax = HandMax(smH, smErr)
        /\ leg.x1 >= 100 - pad.right =>
               /\ smThr >= Len(smH)
               /\ \A i \in 1..Len(smH) : ~(i >= smThr)
               /\ smLoc.pThreshMax = -Unset

\* the no-collision test of the log branch, with the legend edge at y:
\* log10(lmax) <= log10(locMin) + (log10(3 max) - log10(locMin)) (y - bottom)/((1 - top) - bottom)
ClearLog(y) ==
    LET llo == Log10Rat(Rat(1, 5))
    IN  \/ acc.gmax = 0
        \/ acc.gpThreshMax = 0
        \/ Log10Int(acc.gpThreshMax)
             <= llo + ((Log10Int(3 * acc.gmax) - llo) * (y - pad.bottom))
                      \div ((100 - pad.top) - pad.bottom)

\* the example of the log branch: max = 100, zoneMax = 50
LogExample == isLogY /\ acc.gmax = 100 /\ acc.gpThreshMax = 50

\* C4, as stated: in the log branch, a zone maximum below the collision decade
\* measured to the legend's top (0.88) leaves max unscaled and the upper bound
\* 10 max; for max = 100, zoneMax = 50 the upper bound is exactly 1000.
C4_AsStated ==
    (pc = "done" /\ isLogY) =>
        /\ ClearLog(leg.y2) => yrange.hi = Rat(10 * acc.gmax, 1)
        /\ LogExample => yrange.hi = Rat(1000, 1)

\* C4, amended: in the log branch, a zone maximum at or below the collision
\* decade measured to the legend's bottom edge (GetY1, 0.56) leaves max
\* unscaled and the upper bound exactly 10 max; for max = 100, zoneMax = 50
\* the rescale is triggered and the upper bound is above 1000.
C4_LogNoRescale ==
    (pc = "done" /\ isLogY) =>
        /\ ClearLog(leg.y1) =>
               /\ smax = Rat(acc.gmax, 1)
               /\ yrange.hi = Rat(10 * acc.gmax, 1)
        /\ LogExample =>
               /\ ~ClearLog(leg.y1)
               /\ RatLess(Rat(1000, 1), yrange.hi)

\* a log plot with max = 100 whose zone maximum, 10, is below the collision
\* decade: the upper bound is 1000
C4_Witness ==
    /\ pc = "done"
    /\ isLogY
    /\ acc.gmax = 100
    /\ acc.gpThreshMax = 10
    /\ yrange.hi = Rat(1000, 1)

\* the linear branch with the legend edge at y: legendMin = 1.2 max (y - bottom)
\* / ((1 - top) - bottom) = lmN / lmD; max is multiplied by zoneMax / legendMin
\* exactly when zoneMax > legendMin; the range is [0, 1.3 max]
LinearRange(y) ==
    LET lmN == 12 * acc.gmax * (y - pad.bottom)
        lmD == 10 * ((100 - pad.top) - pad.bottom)
        rescale == acc.gpThreshMax * lmD > lmN
    IN  /\ IF rescale
           THEN smax.n * lmN = smax.d * (acc.gmax * acc.gpThreshMax * lmD)
           ELSE smax = Rat(acc.gmax, 1)
        /\ yrange.lo = Rat(0, 1)
        /\ 10 * yrange.hi.n * smax.d = 13 * smax.n * yrange.hi.d

\* C5, as stated: the linear branch measures legendMin to the legend's top
\* y coordinate (0.88).
C5_AsStated == (pc = "done" /\ ~isLogY) => LinearRange(leg.y2)

\* C5, amended: the linear branch measures legendMin to the legend's bottom
\* y coordinate (GetY1, 0.56): legendMin = 1.2 max (0.56 - bottomMargin) /
\* ((1 - topMargin) - bottomMargin); max is multiplied by exactly
\* zoneMax / legendMin when and only when zoneMax > legendMin, and the range
\* set is [0, 1.3 max].
C5_LinearRange == (pc = "done" /\ ~isLogY) => LinearRange(leg.y1)

\* the linear example, max = 10 and zoneMax = 9: 9 is above legendMin, max was
\* rescaled
C5_Witness ==
    /\ pc = "done"
    /\ ~isLogY
    /\ acc.gmax = 10
    /\ acc.gpThreshMax = 9
    /\ RatLess(Rat(10, 1), smax)

\* C6: after a failed retrieval plot() does not go on with the plot: no
\* absent series is ever dereferenced.
C6_AbsentSeriesNeverUsed == ~ub /\ pc \notin {"crashed", "undefined"}

\* C7: every smartMax call leaves the running max and zone maximum at least
\* as large and the running min at most as large as they were, and a call
\* whose series contributes only the sentinels leaves all three unchanged.
C7_Monotone ==
    [][ /\ acc'.gmax >= acc.gmax
        /\ acc'.gpThreshMax >= acc.gpThreshMax
        /\ acc'.gmin <= acc.gmin
        /\ smLoc' = SmartMaxLocals => acc' = acc ]_vars

\* a call on accumulators already set, with a series whose values all lie
\* strictly inside the running min and max: the accumulators kept them
C7_Witness ==
    /\ smEntry = "set"
    /\ smH # <<>>
    /\ smLoc.max < acc.gmax
    /\ smLoc.min > acc.gmin
    /\ acc.gmax > 0

\* C8: the output file is the histogram name with every '/' replaced by '_',
\* followed by ".png", for every name; nothing outside the string is written.
C8_OutputName ==
    /\ ~oob
    /\ npc # "crashed"
    /\ npc = "done" =>
           outFile = [i \in 1..Len(histName) |->
                          IF histName[i] = "/" THEN "_" ELSE histName[i]] \o <<".png">>

\* C9: from min = max = lmax = 0.0 on, and after every smartMax call, the
\* running zone maximum and the running min are at most the running max.
C9_AccumulatorOrder ==
    /\ acc.gpThreshMax <= acc.gmax
    /\ acc.gmin <= acc.gmax

\* the point where the y-range is chosen, with a zone maximum strictly
\* between 0 and the running max
C9_Witness ==
    /\ pc = "range"
    /\ smEntry = "set"
    /\ 0 < acc.gpThreshMax
    /\ acc.gpThreshMax < acc.gmax

\* C10: the margins a smartMax call reads are those of the upper pad as it is
\* rendered: setupPad has run before the first call.
C10_MarginsSetBeforeSmartMax == smEntry # "none" => smPad = UpperPadMargins

====
